---- MODULE Spec2Model ----
(***************************************************************************)
(* Model of frame/staking/src/offchain_election.rs: the rate-limiting      *)
(* guard set_check_offchain_execution_status and the offchain worker       *)
(* compute_offchain_election.                                              *)
(*                                                                         *)
(* Two specifications share the module's variables:                        *)
(*   SpecGuard   guard invocations of one node, interleaved at the two     *)
(*               storage accesses of StorageValueRef::mutate (the read and *)
(*               the compare-and-set);                                     *)
(*   SpecWorker  one invocation of compute_offchain_election, step by step.*)
(*                                                                         *)
(* Rust's Option is a sequence of length at most one: None is <<>> and     *)
(* Some(x) is <<x>>.                                                       *)
(***************************************************************************)
EXTENDS Integers, Sequences, FiniteSets, TLC

VARIABLES
    marker,      \* offchain db entry under OFFCHAIN_HEAD_DB: <<>> or <<head>>
    gpc,         \* per guard invocation: "idle", "mutate" (value read), "done"
    gnow,        \* per guard invocation: the argument now
    gread,       \* per guard invocation: the raw value mutate read
    gseen,       \* per guard invocation: number of commits made before its read
    gres,        \* per guard invocation: the returned Result
    committed,   \* the nows of the guard calls that returned Ok(()), in order
    keys,                \* <Module<T>>::keys(): the authorized session keys
    local_keys,          \* T::KeyType::all(): the keys of the node's keystore
    can_sign,            \* the keys for which pubkey.sign gives Some
    pool_accepts,        \* the keys whose call submit_unsigned accepts
    election,            \* what do_phragmen() returns on the chain state
    snapshot_validators, \* Option of the validator snapshot
    snapshot_nominators, \* Option of the nominator snapshot
    wpc,                 \* position of compute_offchain_election
    cursor,              \* number of local keys the loop's iterator consumed
    candidate,           \* the loop's (index, pubkey)
    phragmen,            \* the PhragmenResult of this iteration
    compact,             \* the compact solution of this iteration
    winners,             \* the winners as validator indices
    signature,           \* the signature of this iteration
    outcome,             \* what the invocation returned ("" while running)
    attempts,            \* number of loop iterations begun
    yielded,             \* the (index, pubkey) items the loop's iterator gave
    snapshot_reads,      \* number of snapshot reads made
    solver_calls,        \* number of do_phragmen calls
    signlog,             \* the sign calls made: key, payload, success
    sublog               \* the calls handed to submit_unsigned, and the answer

gvars == <<marker, gpc, gnow, gread, gseen, gres, committed>>

storage == <<keys, local_keys, can_sign, pool_accepts, election,
              snapshot_validators, snapshot_nominators>>

locals == <<cursor, candidate, phragmen, compact, winners, signature>>

logs == <<attempts, yielded, snapshot_reads, solver_calls, signlog, sublog>>

wvars == <<storage, wpc, locals, outcome, logs>>

vars == <<gvars, wvars>>

(***************************************************************************)
(* Bounds of the model.                                                    *)
(***************************************************************************)
\* Block heights are 0..MaxBlock.  T::BlockNumber is the runtime's unsigned
\* block-height type of at least 32 bits (line 58 converts a u32 into it);
\* the heights of the model stay far below its maximum, so head + threshold
\* is the mathematical sum.
MaxBlock == 7

\* Number of guard invocations that may be in flight at once; a finished
\* invocation returns and its slot is used again.
NumInvocations == 2

BlockNumber == 0..MaxBlock

Invocations == 1..NumInvocations

None == <<>>

Some(x) == <<x>>

(***************************************************************************)
(* set_check_offchain_execution_status                                     *)
(***************************************************************************)
OFFCHAIN_REPEAT == 5

threshold == OFFCHAIN_REPEAT

Ok(v) == [ok |-> TRUE, val |-> v, why |-> ""]

Err(why) == [ok |-> FALSE, val |-> 0, why |-> why]

\* The value the closure is given: mutate decodes the raw entry; None when the
\* entry is absent, Some(Some(head)) when it decodes to a block number.
decoded(raw) == IF raw = None THEN None ELSE Some(Some(raw[1]))

\* Variant of head_closure: the upper end of the window is excluded.
head_closure_exclusive(maybe_head, now) ==
    IF maybe_head # None /\ maybe_head[1] # None
    THEN LET head == maybe_head[1][1] IN
         IF now < head THEN Err("fork.")
         ELSE IF now >= head /\ now < head + threshold THEN Err("recently executed.")
         ELSE Ok(now)
    ELSE Ok(now)

\* Variant of head_closure: only a repeated height counts as recent.
head_closure_no_window(maybe_head, now) ==
    IF maybe_head # None /\ maybe_head[1] # None
    THEN LET head == maybe_head[1][1] IN
         IF now < head THEN Err("fork.")
         ELSE IF now = head THEN Err("recently executed.")
         ELSE Ok(now)
    ELSE Ok(now)

\* Variant of head_closure: the fork arm is missing.
head_closure_no_fork(maybe_head, now) ==
    IF maybe_head # None /\ maybe_head[1] # None
    THEN LET head == maybe_head[1][1] IN
         IF now >= head /\ now <= head + threshold THEN Err("recently executed.")
         ELSE IF now > head + threshold THEN Ok(now)
         ELSE Ok(now)
    ELSE Ok(now)

\* The closure passed to storage.mutate (the match on maybe_head).
head_closure(maybe_head, now) ==
    IF maybe_head # None /\ maybe_head[1] # None
    THEN LET head == maybe_head[1][1] IN
         IF now < head THEN Err("fork.")
         ELSE IF now >= head /\ now <= head + threshold THEN Err("recently executed.")
         ELSE IF now > head + threshold THEN Ok(now)
         ELSE Ok(now)
    ELSE Ok(now)

\* sp_io::offchain::local_storage_compare_and_set as mutate uses it: the new
\* value is stored iff the entry still holds the value that was read.
compare_and_set(current, old_value, new_value) ==
    IF current = old_value
    THEN [set |-> TRUE, value |-> Some(new_value)]
    ELSE [set |-> FALSE, value |-> current]

\* Variant of guard_result: a lost compare-and-set is reported as success.
guard_result_ignore_lost(f_result, set) ==
    IF f_result.ok THEN "Ok" ELSE f_result.why

\* The match on mutate_stat: the Result the guard returns.
guard_result(f_result, set) ==
    IF f_result.ok
    THEN IF set THEN "Ok" ELSE "failed to write to offchain db."
    ELSE f_result.why

\* First storage access of the call: mutate reads the entry.
GuardRead(p) ==
    /\ gpc[p] = "idle"
    /\ \E now \in BlockNumber :
          gnow' = [gnow EXCEPT ![p] = now]
    /\ gread' = [gread EXCEPT ![p] = marker]
    /\ gseen' = [gseen EXCEPT ![p] = Len(committed)]
    /\ gpc' = [gpc EXCEPT ![p] = "mutate"]
    /\ UNCHANGED <<marker, gres, committed>>

\* Variant of GuardMutate: the entry is compare-and-set to now whatever the
\* closure decided.
GuardMutate_write_on_err(p) ==
    /\ gpc[p] = "mutate"
    /\ LET f_result == head_closure(decoded(gread[p]), gnow[p])
           cas == compare_and_set(marker, gread[p], gnow[p])
           res == guard_result(f_result, cas.set)
       IN /\ marker' = cas.value
          /\ gres' = [gres EXCEPT ![p] = res]
          /\ committed' = IF res = "Ok" THEN Append(committed, gnow[p]) ELSE committed
    /\ gpc' = [gpc EXCEPT ![p] = "done"]
    /\ UNCHANGED <<gnow, gread, gseen>>

\* Variant of GuardMutate: the new head is stored with a plain set.
GuardMutate_blind(p) ==
    /\ gpc[p] = "mutate"
    /\ LET f_result == head_closure(decoded(gread[p]), gnow[p])
           res == guard_result(f_result, TRUE)
       IN /\ marker' = IF f_result.ok THEN Some(f_result.val) ELSE marker
          /\ gres' = [gres EXCEPT ![p] = res]
          /\ committed' = IF res = "Ok" THEN Append(committed, gnow[p]) ELSE committed
    /\ gpc' = [gpc EXCEPT ![p] = "done"]
    /\ UNCHANGED <<gnow, gread, gseen>>

\* Rest of the call: the closure decides on the value read; on Ok(now) the
\* entry is compare-and-set against the value read; the outcome is mapped to
\* the returned Result.
GuardMutate(p) ==
    /\ gpc[p] = "mutate"
    /\ LET f_result == head_closure(decoded(gread[p]), gnow[p])
           cas == IF f_result.ok
                  THEN compare_and_set(marker, gread[p], f_result.val)
                  ELSE [set |-> FALSE, value |-> marker]
           res == guard_result(f_result, cas.set)
       IN /\ marker' = cas.value
          /\ gres' = [gres EXCEPT ![p] = res]
          /\ committed' = IF res = "Ok" THEN Append(committed, gnow[p]) ELSE committed
    /\ gpc' = [gpc EXCEPT ![p] = "done"]
    /\ UNCHANGED <<gnow, gread, gseen>>

\* The call has returned; the slot is free for the next invocation.
GuardReturn(p) ==
    /\ gpc[p] = "done"
    /\ gpc' = [gpc EXCEPT ![p] = "idle"]
    /\ gnow' = [gnow EXCEPT ![p] = 0]
    /\ gread' = [gread EXCEPT ![p] = None]
    /\ gseen' = [gseen EXCEPT ![p] = 0]
    /\ gres' = [gres EXCEPT ![p] = ""]
    /\ UNCHANGED <<marker, committed>>

(***************************************************************************)
(* compute_offchain_election                                               *)
(***************************************************************************)
Keys == {"k1", "k2", "k3"}

\* Longest keystore listing (T::KeyType::all()) of the model.
MaxLocalKeys == 3

\* Longest authorized key list (<Module<T>>::keys()) of the model.
MaxKeys == 3

Validators == {"a1", "a2"}

Nominators == {"n1"}

SeqsUpTo(S, n) == UNION {[1..m -> S] : m \in 0..n}

Range(s) == {s[i] : i \in 1..Len(s)}

NoDuplicates(s) == \A i, j \in 1..Len(s) : s[i] = s[j] => i = j

\* Variant of position: an element that does not occur gets index 0.
position_or_zero(s, a) ==
    IF \E i \in 1..Len(s) : s[i] = a
    THEN Some((CHOOSE i \in 1..Len(s) : s[i] = a /\ \A j \in 1..(i - 1) : s[j] # a) - 1)
    ELSE IF s = <<>> THEN None ELSE Some(0)

\* iter().position(|x| x == a): the 0-based index of the first occurrence.
position(s, a) ==
    IF \E i \in 1..Len(s) : s[i] = a
    THEN Some((CHOOSE i \in 1..Len(s) : s[i] = a /\ \A j \in 1..(i - 1) : s[j] # a) - 1)
    ELSE None

\* Variant of find_map: the index counts from 1.
find_map_from_one(authorized, key) ==
    LET i == position(authorized, key)
    IN IF i = None THEN None
       ELSE Some([index |-> i[1] + 1, pubkey |-> authorized[i[1] + 1]])

\* Variant of find_map: the comparison with the local key always succeeds.
find_map_any(authorized, key) ==
    IF authorized = <<>> THEN None
    ELSE Some([index |-> 0, pubkey |-> authorized[1]])

\* keys.iter().enumerate().find_map(..): the first (index, val_key) of the
\* authorized keys whose key equals the local key.
find_map(authorized, key) ==
    LET i == position(authorized, key)
    IN IF i = None THEN None ELSE Some([index |-> i[1], pubkey |-> authorized[i[1] + 1]])

\* Variant of filter_map_next: the iterator does not move past the item it
\* yields.
filter_map_next_stuck(local, authorized, consumed) ==
    LET hits == {j \in (consumed + 1)..Len(local) : find_map(authorized, local[j]) # None}
    IN IF hits = {}
       THEN [consumed |-> Len(local), item |-> None]
       ELSE LET j == CHOOSE h \in hits : \A g \in hits : h <= g
            IN [consumed |-> j - 1, item |-> find_map(authorized, local[j])]

\* The loop's iterator, local_keys.into_iter().filter_map(..), advanced once
\* after `consumed` local keys: the number of local keys consumed then, and the
\* item it yields (None when the local keys are used up).
filter_map_next(local, authorized, consumed) ==
    LET hits == {j \in (consumed + 1)..Len(local) : find_map(authorized, local[j]) # None}
    IN IF hits = {}
       THEN [consumed |-> Len(local), item |-> None]
       ELSE LET j == CHOOSE h \in hits : \A g \in hits : h <= g
            IN [consumed |-> j, item |-> find_map(authorized, local[j])]

\* What <Module<T>>::do_phragmen() may return: None, or winners with the
\* assignments of the nominators (who, and the winners it backs).  It is a
\* function of the chain state the worker runs on, the same at every call of
\* one invocation.
PhragmenResults ==
    { None,
      Some([winners |-> <<"a1">>,
            assignments |-> {[who |-> "n1", distribution |-> {"a1"}]}]),
      Some([winners |-> <<"a2">>,
            assignments |-> {[who |-> "n1", distribution |-> {"a2"}]}]),
      Some([winners |-> <<"a2">>, assignments |-> {}]) }

\* The closures nominator_index and validator_index over the snapshots.
nominator_index(snapshot, a) == position(snapshot, a)

validator_index(snapshot, a) == position(snapshot, a)

\* sp_phragmen::evaluate_support over the support of the winners: an abstract
\* score, the number of winners and of backing edges.
evaluate_support(result) ==
    <<Len(result.winners),
      Cardinality(UNION {{<<a.who, t>> : t \in a.distribution \cap Range(result.winners)}
                         : a \in result.assignments})>>

\* CompactOf::<T>::from_assignment: every voter and target is replaced by its
\* index; an account without index makes it fail.
from_assignment(assignments, nominators, validators) ==
    IF \E a \in assignments :
          \/ nominator_index(nominators, a.who) = None
          \/ \E t \in a.distribution : validator_index(validators, t) = None
    THEN [ok |-> FALSE, val |-> {}]
    ELSE [ok |-> TRUE,
          val |-> {[who |-> nominator_index(nominators, a.who)[1],
                    distribution |-> {validator_index(validators, t)[1] : t \in a.distribution}]
                   : a \in assignments}]

\* The SignaturePayloadOf tuple.
signature_payload(w, c, score, index) ==
    [winners |-> w, compact |-> c, score |-> score, index |-> index]

\* pubkey.sign(&payload.encode()): the signature names the key and what it signed.
sign(pubkey, payload) ==
    IF pubkey \in can_sign THEN Some([by |-> pubkey, over |-> payload]) ELSE None

\* Call::submit_election_solution_unsigned(winners, compact, score, index, signature)
submit_election_solution_unsigned(w, c, score, index, sig) ==
    [winners |-> w, compact |-> c, score |-> score, index |-> index, signature |-> sig]

\* T::SubmitTransaction::submit_unsigned(call).is_ok()
submit_unsigned(call) == call.signature.by \in pool_accepts

NoCandidate == [index |-> 0, pubkey |-> ""]

\* return from the function with the given Result.
Return(result) ==
    /\ wpc' = "done"
    /\ outcome' = result

\* The for loop asks its iterator for the next (index, pubkey); without one the
\* loop ends and the function returns Err(NoSigningKey).
LoopNext ==
    /\ wpc = "loop"
    /\ LET n == filter_map_next(local_keys, keys, cursor)
       IN /\ cursor' = n.consumed
          /\ IF n.item = None
             THEN /\ Return("NoSigningKey")
                  /\ UNCHANGED <<candidate, attempts, yielded>>
             ELSE /\ candidate' = n.item[1]
                  /\ attempts' = attempts + 1
                  /\ yielded' = Append(yielded, n.item[1])
                  /\ wpc' = "snapshot"
                  /\ UNCHANGED outcome
    /\ UNCHANGED <<gvars, storage, phragmen, compact, winners, signature,
                   snapshot_reads, solver_calls, signlog, sublog>>

\* Variant of SnapshotCheck: only the validator snapshot is required.
SnapshotCheck_validators_only ==
    /\ wpc = "snapshot"
    /\ snapshot_reads' = snapshot_reads + (IF snapshot_validators = None THEN 1 ELSE 2)
    /\ IF snapshot_validators = None
       THEN Return("SnapshotUnavailable")
       ELSE wpc' = "solve" /\ UNCHANGED outcome
    /\ UNCHANGED <<gvars, storage, locals, attempts, yielded, solver_calls,
                   signlog, sublog>>

\* make sure that the snapshot is available.
SnapshotCheck ==
    /\ wpc = "snapshot"
    /\ snapshot_reads' = snapshot_reads + (IF snapshot_validators = None THEN 1 ELSE 2)
    /\ IF snapshot_validators = None \/ snapshot_nominators = None
       THEN Return("SnapshotUnavailable")
       ELSE wpc' = "solve" /\ UNCHANGED outcome
    /\ UNCHANGED <<gvars, storage, locals, attempts, yielded, solver_calls,
                   signlog, sublog>>

\* Variant of Solve: without a result the loop goes on to the next key.
Solve_continue ==
    /\ wpc = "solve"
    /\ solver_calls' = solver_calls + 1
    /\ IF election = None
       THEN wpc' = "loop" /\ UNCHANGED <<phragmen, outcome>>
       ELSE phragmen' = election /\ wpc' = "compact" /\ UNCHANGED outcome
    /\ UNCHANGED <<gvars, storage, cursor, candidate, compact, winners, signature,
                   attempts, yielded, snapshot_reads, signlog, sublog>>

\* Variant of Solve: a missing result is replaced by the empty result.
Solve_default ==
    /\ wpc = "solve"
    /\ solver_calls' = solver_calls + 1
    /\ phragmen' = IF election = None
                   THEN Some([winners |-> <<>>, assignments |-> {}])
                   ELSE election
    /\ wpc' = "compact"
    /\ UNCHANGED <<gvars, storage, cursor, candidate, compact, winners, signature,
                   outcome, attempts, yielded, snapshot_reads, signlog, sublog>>

\* do_phragmen().ok_or(ElectionFailed)?
Solve ==
    /\ wpc = "solve"
    /\ solver_calls' = solver_calls + 1
    /\ IF election = None
       THEN Return("ElectionFailed") /\ UNCHANGED phragmen
       ELSE phragmen' = election /\ wpc' = "compact" /\ UNCHANGED outcome
    /\ UNCHANGED <<gvars, storage, cursor, candidate, compact, winners, signature,
                   attempts, yielded, snapshot_reads, signlog, sublog>>

\* Variant of Compact: the result of from_assignment is unwrapped.
Compact_unwrap ==
    /\ wpc = "compact"
    /\ LET c == from_assignment(phragmen[1].assignments,
                                snapshot_nominators[1], snapshot_validators[1])
       IN IF c.ok
          THEN compact' = c.val /\ wpc' = "winners" /\ UNCHANGED outcome
          ELSE Return("panic") /\ UNCHANGED compact
    /\ UNCHANGED <<gvars, storage, cursor, candidate, phragmen, winners, signature, logs>>

\* winners to accounts, staked assignments, reduce, score, and the compact
\* encoding: from_assignment(..).map_err(|_| CompactFailed)?
Compact ==
    /\ wpc = "compact"
    /\ LET c == from_assignment(phragmen[1].assignments,
                                snapshot_nominators[1], snapshot_validators[1])
       IN IF c.ok
          THEN compact' = c.val /\ wpc' = "winners" /\ UNCHANGED outcome
          ELSE Return("CompactFailed") /\ UNCHANGED compact
    /\ UNCHANGED <<gvars, storage, cursor, candidate, phragmen, winners, signature, logs>>

\* convert winners to index as well: validator_index(&w).expect(..)
WinnersToIndex ==
    /\ wpc = "winners"
    /\ LET ws == phragmen[1].winners
       IN IF \E i \in 1..Len(ws) : validator_index(snapshot_validators[1], ws[i]) = None
          THEN /\ wpc' = "done"
               /\ outcome' = "panic"
               /\ UNCHANGED winners
          ELSE /\ winners' = [i \in 1..Len(ws) |->
                                 validator_index(snapshot_validators[1], ws[i])[1]]
               /\ wpc' = "sign"
               /\ UNCHANGED outcome
    /\ UNCHANGED <<gvars, storage, cursor, candidate, phragmen, compact, signature, logs>>

\* pubkey.sign(&signature_payload.encode()).ok_or(SigningFailed)?
Sign ==
    /\ wpc = "sign"
    /\ LET payload == signature_payload(winners, compact, evaluate_support(phragmen[1]),
                                        candidate.index)
           sig == sign(candidate.pubkey, payload)
       IN /\ signlog' = Append(signlog, [pubkey |-> candidate.pubkey,
                                         payload |-> payload, ok |-> sig # None])
          /\ IF sig = None
             THEN Return("SigningFailed") /\ UNCHANGED signature
             ELSE signature' = sig[1] /\ wpc' = "submit" /\ UNCHANGED outcome
    /\ UNCHANGED <<gvars, storage, cursor, candidate, phragmen, compact, winners,
                   attempts, yielded, snapshot_reads, solver_calls, sublog>>

\* Variant of Submit: the call carries the key's position among the local keys.
Submit_local_index ==
    /\ wpc = "submit"
    /\ LET call == submit_election_solution_unsigned(
                       winners, compact, evaluate_support(phragmen[1]),
                       cursor - 1, signature)
           ok == submit_unsigned(call)
       IN /\ sublog' = Append(sublog, [call |-> call, ok |-> ok])
          /\ IF ok
             THEN Return("Ok")
             ELSE wpc' = "loop" /\ UNCHANGED outcome
    /\ UNCHANGED <<gvars, storage, locals, attempts, yielded, snapshot_reads,
                   solver_calls, signlog>>

\* Variant of Submit: the loop goes on after a successful submission too.
Submit_no_return ==
    /\ wpc = "submit"
    /\ LET call == submit_election_solution_unsigned(
                       winners, compact, evaluate_support(phragmen[1]),
                       candidate.index, signature)
       IN sublog' = Append(sublog, [call |-> call, ok |-> submit_unsigned(call)])
    /\ wpc' = "loop"
    /\ UNCHANGED <<gvars, storage, locals, outcome, attempts, yielded, snapshot_reads,
                   solver_calls, signlog>>

\* T::SubmitTransaction::submit_unsigned(call): on success return Ok(()), else
\* warn and go on with the loop.
Submit ==
    /\ wpc = "submit"
    /\ LET call == submit_election_solution_unsigned(
                       winners, compact, evaluate_support(phragmen[1]),
                       candidate.index, signature)
           ok == submit_unsigned(call)
       IN /\ sublog' = Append(sublog, [call |-> call, ok |-> ok])
          /\ IF ok
             THEN Return("Ok")
             ELSE wpc' = "loop" /\ UNCHANGED outcome
    /\ UNCHANGED <<gvars, storage, locals, attempts, yielded, snapshot_reads,
                   solver_calls, signlog>>

GuardIdle ==
    /\ marker = None
    /\ gpc = [p \in Invocations |-> "idle"]
    /\ gnow = [p \in Invocations |-> 0]
    /\ gread = [p \in Invocations |-> None]
    /\ gseen = [p \in Invocations |-> 0]
    /\ gres = [p \in Invocations |-> ""]
    /\ committed = <<>>

WorkerLocals ==
    /\ cursor = 0
    /\ candidate = NoCandidate
    /\ phragmen = None
    /\ compact = {}
    /\ winners = <<>>
    /\ signature = [by |-> "", over |-> <<>>]
    /\ outcome = ""
    /\ attempts = 0
    /\ yielded = <<>>
    /\ snapshot_reads = 0
    /\ solver_calls = 0
    /\ signlog = <<>>
    /\ sublog = <<>>

\* Guard invocations only: no worker runs.
InitGuard ==
    /\ GuardIdle
    /\ keys = <<>>
    /\ local_keys = <<>>
    /\ can_sign = {}
    /\ pool_accepts = {}
    /\ election = None
    /\ snapshot_validators = None
    /\ snapshot_nominators = None
    /\ wpc = "idle"
    /\ WorkerLocals

NextGuard ==
    \/ \E p \in Invocations : GuardRead(p) /\ UNCHANGED wvars
    \/ \E p \in Invocations : GuardMutate(p) /\ UNCHANGED wvars
    \/ \E p \in Invocations : GuardReturn(p) /\ UNCHANGED wvars

SpecGuard == InitGuard /\ [][NextGuard]_vars

\* compute_offchain_election has been called and has read the authorized keys
\* and the keystore.  The session keys of the validators are pairwise
\* distinct; the keystore may list a key more than once.
InitWorker ==
    /\ GuardIdle
    /\ keys \in {s \in SeqsUpTo(Keys, MaxKeys) : NoDuplicates(s)}
    /\ local_keys \in SeqsUpTo(Keys, MaxLocalKeys)
    /\ can_sign \in SUBSET (Range(local_keys) \cap Range(keys))
    /\ pool_accepts \in SUBSET can_sign
    /\ election \in PhragmenResults
    /\ snapshot_validators \in {None, Some(<<"a1">>)}
    /\ snapshot_nominators \in {None, Some(<<"n1">>)}
    /\ wpc = "loop"
    /\ WorkerLocals

NextWorker ==
    \/ LoopNext
    \/ SnapshotCheck
    \/ Solve
    \/ Compact
    \/ WinnersToIndex
    \/ Sign
    \/ Submit

SpecWorker == InitWorker /\ [][NextWorker]_vars

(***************************************************************************)
(* The worker invocation: the guard, then compute_offchain_election.       *)
(***************************************************************************)
\* The invocations of the node that may overlap.
NodeInvocations == {1, 2}

\* Variant of WorkerStart: the election is computed whatever the guard said.
WorkerStart_unguarded(p) ==
    /\ gpc[p] = "done"
    /\ wpc = "idle"
    /\ gpc' = [gpc EXCEPT ![p] = "worker"]
    /\ wpc' = "loop"
    /\ UNCHANGED <<marker, gnow, gread, gseen, gres, committed,
                   storage, locals, outcome, logs>>

\* The guard returned Ok: the invocation goes on to compute_offchain_election.
WorkerStart(p) ==
    /\ gpc[p] = "done"
    /\ gres[p] = "Ok"
    /\ wpc = "idle"
    /\ gpc' = [gpc EXCEPT ![p] = "worker"]
    /\ wpc' = "loop"
    /\ UNCHANGED <<marker, gnow, gread, gseen, gres, committed,
                   storage, locals, outcome, logs>>

\* The guard returned an error: the invocation ends there.
WorkerSkip(p) ==
    /\ gres[p] # "Ok"
    /\ GuardReturn(p)
    /\ UNCHANGED wvars

\* compute_offchain_election has ended; the invocation is over.
WorkerFinish(p) ==
    /\ gpc[p] = "worker"
    /\ wpc = "done"
    /\ gpc' = [gpc EXCEPT ![p] = "idle"]
    /\ gnow' = [gnow EXCEPT ![p] = 0]
    /\ gread' = [gread EXCEPT ![p] = None]
    /\ gseen' = [gseen EXCEPT ![p] = 0]
    /\ gres' = [gres EXCEPT ![p] = ""]
    /\ wpc' = "idle"
    /\ cursor' = 0
    /\ candidate' = NoCandidate
    /\ phragmen' = None
    /\ compact' = {}
    /\ winners' = <<>>
    /\ signature' = [by |-> "", over |-> <<>>]
    /\ outcome' = ""
    /\ attempts' = 0
    /\ yielded' = <<>>
    /\ snapshot_reads' = 0
    /\ solver_calls' = 0
    /\ signlog' = <<>>
    /\ sublog' = <<>>
    /\ UNCHANGED <<marker, committed, storage>>

\* A node with two authorized keys, both in its keystore; the signing keys,
\* the pool and the solver differ from run to run.
InitNode ==
    /\ GuardIdle
    /\ keys = <<"k1", "k2">>
    /\ local_keys = <<"k2", "k1">>
    /\ can_sign \in {{}, {"k1", "k2"}}
    /\ pool_accepts \in {a \in {{}, {"k1"}} : a \subseteq can_sign}
    /\ election \in {None, Some([winners |-> <<"a1">>,
                                 assignments |-> {[who |-> "n1", distribution |-> {"a1"}]}])}
    /\ snapshot_validators = Some(<<"a1">>)
    /\ snapshot_nominators = Some(<<"n1">>)
    /\ wpc = "idle"
    /\ WorkerLocals

NextNode ==
    \/ \E p \in NodeInvocations : GuardRead(p) /\ UNCHANGED wvars
    \/ \E p \in NodeInvocations : GuardMutate(p) /\ UNCHANGED wvars
    \/ \E p \in NodeInvocations : WorkerSkip(p)
    \/ \E p \in NodeInvocations : WorkerStart(p)
    \/ LoopNext
    \/ SnapshotCheck
    \/ Solve
    \/ Compact
    \/ WinnersToIndex
    \/ Sign
    \/ Submit
    \/ \E p \in NodeInvocations : WorkerFinish(p)

SpecNode == InitNode /\ [][NextNode]_vars

(***************************************************************************)
(* Properties of the guard, checked under SpecGuard.                       *)
(***************************************************************************)
WriteFailed == "failed to write to offchain db."

\* The step in which invocation p finishes its call.
Finishes(p) == gpc[p] = "mutate" /\ gpc'[p] = "done"

\* C1: a guard call that no other writer interferes with (the entry still
\* holds the value the call read) follows the decision table with T = 5:
\* absent -> the entry becomes now, Ok; now < head -> Fork;
\* head <= now <= head + 5 -> RecentlyExecuted; now > head + 5 -> the entry
\* becomes now, Ok.
C1_DecisionTable ==
    [][\A p \in Invocations :
          (Finishes(p) /\ marker = gread[p]) =>
             IF gread[p] = None
             THEN marker' = Some(gnow[p]) /\ gres'[p] = "Ok"
             ELSE LET head == gread[p][1]
                      now == gnow[p]
                  IN /\ (now < head => gres'[p] = "fork.")
                     /\ (head <= now /\ now <= head + 5 =>
                            gres'[p] = "recently executed.")
                     /\ (now > head + 5 =>
                            marker' = Some(now) /\ gres'[p] = "Ok")]_vars

\* A call at the upper end of the window, now = head + 5, was refused as
\* recently executed.
C1_Witness ==
    \E p \in Invocations :
        /\ gpc[p] = "done"
        /\ gread[p] # None
        /\ marker = gread[p]
        /\ gnow[p] = gread[p][1] + 5
        /\ gres[p] = "recently executed."

\* C2: guard idempotence.  The first call on a node proceeds (Ok, or a lost
\* race when calls overlap), and a call made after a call with now1 proceeded,
\* with now1 < now2 <= now1 + 5, returns RecentlyExecuted.
C2_Idempotence ==
    \A p \in Invocations :
        gpc[p] = "done" =>
           IF gseen[p] = 0
           THEN gread[p] = None /\ gres[p] \in {"Ok", WriteFailed}
           ELSE LET now1 == committed[gseen[p]]
                    now2 == gnow[p]
                IN (now1 < now2 /\ now2 <= now1 + 5) => gres[p] = "recently executed."

\* After a call with now1 proceeded, a call with now1 < now2 <= now1 + 5 was
\* refused.
C2_Witness ==
    \E p \in Invocations :
        /\ gpc[p] = "done"
        /\ gseen[p] >= 1
        /\ committed[gseen[p]] < gnow[p]
        /\ gnow[p] <= committed[gseen[p]] + 5
        /\ gres[p] = "recently executed."

\* C3: fork rejection.  A call whose now is below a head that a successful
\* call committed before it began fails with Fork.
C3_ForkRejection ==
    \A p \in Invocations :
        (gpc[p] = "done" /\ \E i \in 1..gseen[p] : gnow[p] < committed[i])
            => gres[p] = "fork."

\* A call below a head committed two successful calls ago failed with Fork.
C3_Witness ==
    \E p \in Invocations :
        /\ gpc[p] = "done"
        /\ gseen[p] >= 2
        /\ gnow[p] < committed[1]
        /\ gres[p] = "fork."

\* The decision of the table to proceed, on the raw value read.
Proceeds(read, now) == read = None \/ now > read[1] + 5

\* C4: of two overlapping calls that read the same value and both decide to
\* proceed at most one returns Ok; the other returns the write-failed error.
C4_OneCommit ==
    \A p, q \in Invocations :
        ( /\ p # q
          /\ gpc[p] = "done" /\ gpc[q] = "done"
          /\ gread[p] = gread[q]
          /\ Proceeds(gread[p], gnow[p]) /\ Proceeds(gread[q], gnow[q]) )
        => /\ {gres[p], gres[q]} \subseteq {"Ok", WriteFailed}
           /\ ~(gres[p] = "Ok" /\ gres[q] = "Ok")
           /\ WriteFailed \notin {"fork.", "recently executed.", "Ok"}

\* Two calls read the same value and both decided to proceed: one committed,
\* the other lost the race.
C4_Witness ==
    \E p, q \in Invocations :
        /\ p # q
        /\ gpc[p] = "done" /\ gpc[q] = "done"
        /\ gread[p] = gread[q]
        /\ Proceeds(gread[p], gnow[p]) /\ Proceeds(gread[q], gnow[q])
        /\ gres[p] = "Ok" /\ gres[q] = WriteFailed

\* C5: any two guard calls of the node that returned Ok have nows more than
\* T = 5 apart, under every interleaving.
C5_Cadence ==
    \A i, j \in 1..Len(committed) :
        i < j => LET d == committed[j] - committed[i] IN d > 5 \/ d < -5

\* Two calls returned Ok while a third lost the race against one of them.
C5_Witness ==
    /\ Len(committed) = 2
    /\ \E p \in Invocations : gpc[p] = "done" /\ gres[p] = WriteFailed

(***************************************************************************)
(* Properties of compute_offchain_election, checked under SpecWorker.      *)
(***************************************************************************)
\* The positions of the local keys that are authorized: the candidates, in
\* the order of the local keys.
AuthorizedPositions == {j \in 1..Len(local_keys) : local_keys[j] \in Range(keys)}

NumCandidates == Cardinality(AuthorizedPositions)

\* The key of the n-th candidate, n in 1..NumCandidates.
CandidateKey(n) ==
    local_keys[CHOOSE j \in AuthorizedPositions :
                  Cardinality({i \in AuthorizedPositions : i <= j}) = n]

CandidatesRemain == \E j \in AuthorizedPositions : j > cursor

SnapshotsPresent == snapshot_validators # None /\ snapshot_nominators # None

\* Every voter and target of the assignments has an index in the snapshots.
AssignmentsResolve(result) ==
    \A a \in result.assignments :
        /\ a.who \in Range(snapshot_nominators[1])
        /\ a.distribution \subseteq Range(snapshot_validators[1])

\* The steps before signing succeed on this chain state.
PipelineSucceeds ==
    /\ SnapshotsPresent
    /\ election # None
    /\ AssignmentsResolve(election[1])
    /\ Range(election[1].winners) \subseteq Range(snapshot_validators[1])

Fatal == {"SnapshotUnavailable", "ElectionFailed", "CompactFailed"}

\* C6: a signing failure ends only the current candidate: the invocation does
\* not end with SigningFailed while candidates remain.
C6_SigningFailureAdvances ==
    (wpc = "done" /\ outcome = "SigningFailed") => ~CandidatesRemain

\* C7: first-success termination.  When the first candidate's key cannot
\* sign and the second candidate's key signs and its call is accepted, the
\* worker returns Ok after exactly two executions of the pipeline.
C7_FirstSuccessTermination ==
    ( /\ wpc = "done"
      /\ PipelineSucceeds
      /\ NumCandidates >= 2
      /\ CandidateKey(1) \notin can_sign
      /\ CandidateKey(2) \in can_sign
      /\ CandidateKey(2) \in pool_accepts )
    => /\ outcome = "Ok"
       /\ attempts = 2
       /\ Len(signlog) = 2
       /\ Len(sublog) = 1

\* C8: a failed submission is never fatal.  A successful submission is the
\* last thing the invocation does: it is the last submission, the invocation
\* has returned Ok, and solver calls, signings and submissions stand at one
\* per candidate tried.  After a failed submission the worker goes on with the
\* next candidate, and when no candidate is left it returns NoSigningKey.
C8_SubmissionFailureNotFatal ==
    /\ \A i \in 1..Len(sublog) :
          sublog[i].ok => /\ i = Len(sublog)
                          /\ wpc = "done" /\ outcome = "Ok"
                          /\ attempts = i /\ solver_calls = i /\ Len(signlog) = i
    /\ outcome = "Ok" => (sublog # <<>> /\ sublog[Len(sublog)].ok)
    /\ ( /\ wpc = "done"
         /\ sublog # <<>>
         /\ ~sublog[Len(sublog)].ok
         /\ attempts = Len(sublog) )
       => (outcome = "NoSigningKey" /\ ~CandidatesRemain)
    /\ ( /\ wpc = "done"
         /\ NumCandidates >= 1
         /\ Len(sublog) = NumCandidates
         /\ \A i \in 1..Len(sublog) : ~sublog[i].ok )
       => outcome = "NoSigningKey"

\* The first candidate's submission failed, the second one's succeeded, and
\* the invocation returned Ok.
C8_Witness ==
    /\ wpc = "done"
    /\ Len(sublog) = 2
    /\ ~sublog[1].ok
    /\ sublog[2].ok
    /\ outcome = "Ok"

\* C9: a fatal step ends the invocation with its error at once: once a
\* snapshot was found missing, the solver gave no result or the compact
\* encoding failed, the invocation has returned that error in its first
\* attempt, no further candidate was tried and nothing was signed or
\* submitted.
C9_FatalAborts ==
    /\ (attempts >= 1 /\ ~SnapshotsPresent /\ wpc # "snapshot")
       => ( /\ wpc = "done" /\ outcome = "SnapshotUnavailable"
            /\ attempts = 1 /\ solver_calls = 0
            /\ signlog = <<>> /\ sublog = <<>> )
    /\ (solver_calls >= 1 /\ election = None)
       => ( /\ wpc = "done" /\ outcome = "ElectionFailed"
            /\ attempts = 1 /\ solver_calls = 1
            /\ signlog = <<>> /\ sublog = <<>> )
    /\ (phragmen # None /\ ~AssignmentsResolve(phragmen[1]) /\ wpc # "compact")
       => ( /\ wpc = "done" /\ outcome = "CompactFailed"
            /\ attempts = 1 /\ solver_calls = 1
            /\ signlog = <<>> /\ sublog = <<>> )
    /\ outcome \in Fatal => wpc = "done"

\* The solver gave no result while two more candidates were waiting: the
\* invocation ended with ElectionFailed.
C9_Witness ==
    /\ wpc = "done"
    /\ outcome = "ElectionFailed"
    /\ Cardinality({j \in AuthorizedPositions : j > cursor}) >= 2

\* C10 as stated: with the snapshots present and a solver that gives no
\* result, the invocation returns ElectionFailed whatever the key sets are.
C10_ElectionFailedAlways ==
    (wpc = "done" /\ SnapshotsPresent /\ election = None)
        => outcome = "ElectionFailed"

\* C10, amended: with the snapshots present and a solver that gives no
\* result, the invocation returns ElectionFailed after one solver call when
\* some local key is authorized; when none is, the solver is never called and
\* the invocation returns NoSigningKey.
C10_ElectionFailedWithCandidate ==
    (wpc = "done" /\ SnapshotsPresent /\ election = None)
        => IF NumCandidates >= 1
           THEN outcome = "ElectionFailed" /\ solver_calls = 1
           ELSE outcome = "NoSigningKey" /\ solver_calls = 0

\* The solver gave no result to the first of several candidates and the
\* invocation returned ElectionFailed.
C10_Witness ==
    /\ wpc = "done"
    /\ SnapshotsPresent
    /\ election = None
    /\ NumCandidates >= 2
    /\ solver_calls = 1
    /\ outcome = "ElectionFailed"

\* The index of the first occurrence of key k in the sequence s, from 0.
FirstIndex(s, k) ==
    (CHOOSE i \in 1..Len(s) : s[i] = k /\ \A j \in 1..(i - 1) : s[j] # k) - 1

\* The candidate sequence of the Key Selector: for each authorized local key,
\* in the order of the local keys, its position among the authorized keys and
\* the key.
CandidateSeq ==
    [n \in 1..NumCandidates |->
        [index |-> FirstIndex(keys, CandidateKey(n)), pubkey |-> CandidateKey(n)]]

C13_NoAuthorizedKey ==
    NumCandidates = 0 =>
        /\ wpc = "loop" \/ (wpc = "done" /\ outcome = "NoSigningKey")
        /\ yielded = <<>>
        /\ attempts = 0
        /\ snapshot_reads = 0
        /\ solver_calls = 0
        /\ signlog = <<>>
        /\ sublog = <<>>

\* A node with local keys and a chain with authorized keys, none in common:
\* the invocation returned NoSigningKey.
C13_Witness ==
    /\ local_keys # <<>>
    /\ keys # <<>>
    /\ NumCandidates = 0
    /\ wpc = "done"
    /\ outcome = "NoSigningKey"

TypedErrors ==
    {"NoSigningKey", "SigningFailed", "ElectionFailed", "SnapshotUnavailable",
     "CompactFailed"}

\* A winner of the solver's result has no index in the validator snapshot
\* while the compact encoding succeeds.
UnresolvedWinner ==
    /\ SnapshotsPresent
    /\ election # None
    /\ AssignmentsResolve(election[1])
    /\ ~(Range(election[1].winners) \subseteq Range(snapshot_validators[1]))

SignedOk == Cardinality({j \in 1..Len(signlog) : signlog[j].ok})

\* C17: the steps of an attempt come in the order snapshot check, solve,
\* compact, sign, submit.  The solver is called only with both snapshots found
\* (two reads per call at least); with a snapshot missing the invocation ends
\* with SnapshotUnavailable and no solver call, whatever the solver would
\* return; a payload is signed only after the compact encoding of the solver's
\* result succeeded, and it carries that encoding; a call is submitted only
\* after a signing that succeeded.
C17_StepOrder ==
    /\ solver_calls >= 1 => (SnapshotsPresent /\ snapshot_reads >= 2 * solver_calls)
    /\ (wpc = "done" /\ ~SnapshotsPresent /\ NumCandidates >= 1)
       => (outcome = "SnapshotUnavailable" /\ solver_calls = 0)
    /\ solver_calls <= attempts
    /\ Len(signlog) <= solver_calls
    /\ signlog # <<>> =>
          /\ election # None
          /\ AssignmentsResolve(election[1])
          /\ \A j \in 1..Len(signlog) :
                signlog[j].payload.compact =
                    {[who |-> FirstIndex(snapshot_nominators[1], a.who),
                      distribution |-> {FirstIndex(snapshot_validators[1], t)
                                           : t \in a.distribution}]
                     : a \in election[1].assignments}
    /\ Len(sublog) <= SignedOk

\* The validator snapshot was there, the nominator snapshot was not, and the
\* solver would have given no result: the invocation ended with
\* SnapshotUnavailable and the solver was not called.
C17_Witness ==
    /\ wpc = "done"
    /\ snapshot_validators # None
    /\ snapshot_nominators = None
    /\ election = None
    /\ NumCandidates >= 1
    /\ solver_calls = 0
    /\ outcome = "SnapshotUnavailable"

\* C18: every call handed to submit_unsigned carries the winners, the compact
\* solution, the score and the index of a payload that was signed
\* successfully, its signature is the one made over that payload by the key
\* at that index of the authorized keys.
C18_CallMatchesPayload ==
    \A i \in 1..Len(sublog) :
        LET call == sublog[i].call
        IN /\ \E j \in 1..Len(signlog) :
                 /\ signlog[j].ok
                 /\ call.signature = [by |-> signlog[j].pubkey, over |-> signlog[j].payload]
           /\ call.winners = call.signature.over.winners
           /\ call.compact = call.signature.over.compact
           /\ call.score = call.signature.over.score
           /\ call.index = call.signature.over.index
           /\ call.index + 1 \in 1..Len(keys)
           /\ keys[call.index + 1] = call.signature.by
           /\ call.index = FirstIndex(keys, call.signature.by)

\* Two calls were submitted, the first one for the key at index 2 of the
\* authorized keys.
C18_Witness ==
    /\ Len(sublog) = 2
    /\ sublog[1].call.index = 2
    /\ sublog[1].call.signature.by = keys[3]
    /\ sublog[2].call.index # 2

\* The bounds on the work of one invocation: at most one attempt, solver
\* call, signing and submission per local key, and one solver call for each
\* attempt whose snapshot check passed.
WorkBounded ==
    /\ attempts <= Len(local_keys)
    /\ solver_calls <= Len(local_keys)
    /\ Len(signlog) <= Len(local_keys)
    /\ Len(sublog) <= Len(local_keys)
    /\ IF SnapshotsPresent
       THEN solver_calls = (IF wpc \in {"snapshot", "solve"} THEN attempts - 1 ELSE attempts)
       ELSE solver_calls = 0

\* What is left of an invocation: the keys the loop has not passed yet, seven
\* steps for each, and the steps left of the attempt under way.
StepsLeft ==
    IF wpc = "done"
    THEN 0
    ELSE 1 + 7 * (Len(local_keys) - cursor)
           + (CASE wpc = "loop" -> 0
                [] wpc = "snapshot" -> 6
                [] wpc = "solve" -> 5
                [] wpc = "compact" -> 4
                [] wpc = "winners" -> 3
                [] wpc = "sign" -> 2
                [] wpc = "submit" -> 1)

\* An invocation that has not ended has a next step: the iterator gives an
\* item or its end, and each later position has its step.
CanStep ==
    /\ wpc \in {"loop", "snapshot", "solve", "compact", "winners", "sign", "submit", "done"}
    /\ wpc = "loop" =>
          LET n == filter_map_next(local_keys, keys, cursor)
          IN /\ n.consumed \in cursor..Len(local_keys)
             /\ n.item = None \/ n.item[1].pubkey \in Range(keys)
    /\ wpc = "snapshot" => ENABLED SnapshotCheck
    /\ wpc = "solve" => ENABLED Solve
    /\ wpc = "compact" => ENABLED Compact
    /\ wpc = "winners" => ENABLED WinnersToIndex
    /\ wpc = "sign" => ENABLED Sign
    /\ wpc = "submit" => ENABLED Submit

C20_MarkerMonotone ==
    [][ /\ marker # None => (marker' # None /\ marker'[1] >= marker[1])
        /\ \A p \in Invocations :
              Finishes(p) =>
                 /\ gres'[p] \in {"Ok", "fork.", "recently executed.", WriteFailed}
                 /\ gres'[p] # "Ok" => marker' = marker
                 /\ gres'[p] = WriteFailed => marker # gread[p]
                 /\ gres'[p] = "Ok" =>
                       /\ marker' = Some(gnow[p])
                       /\ marker # None => gnow[p] > marker[1] + 5
        /\ marker' # marker => \E p \in Invocations : Finishes(p) /\ gres'[p] = "Ok"
      ]_vars

\* A head was replaced by a later one, and a call with an older now was then
\* refused as a fork and left the head alone.
C20_Witness ==
    /\ Len(committed) = 2
    /\ committed[2] > committed[1] + 5
    /\ marker = Some(committed[2])
    /\ \E p \in Invocations :
          /\ gpc[p] = "done"
          /\ gres[p] = "fork."
          /\ gread[p] = marker
          /\ gnow[p] < committed[2]

(***************************************************************************)
(* Properties of the whole invocation, checked under SpecNode.             *)
(***************************************************************************)
GuardFailures == {"fork.", "recently executed.", WriteFailed}

\* The invocation that is inside compute_offchain_election, if any.
InWorker(p) == gpc[p] = "worker"

\* C15: the stored head changes only in the step of a guard call that ends
\* with Ok, from exactly the value that call read to its now (a
\* compare-and-set, not a plain set), and nothing of the worker changes in
\* that step; no step of compute_offchain_election changes the head; the
\* authorized keys, the keystore, the snapshots and what the solver, the
\* signer and the pool would answer are the same after every step.
C15_Frame ==
    [][ /\ storage' = storage
        /\ marker' # marker =>
              /\ wvars' = wvars
              /\ \E p \in NodeInvocations :
                    /\ Finishes(p)
                    /\ gres'[p] = "Ok"
                    /\ marker = gread[p]
                    /\ marker' = Some(gnow[p])
        /\ <<wpc, locals, outcome, logs>>' # <<wpc, locals, outcome, logs>>
              => (marker' = marker /\ committed' = committed)
      ]_vars

\* A run of compute_offchain_election tried both keys and ended with
\* NoSigningKey while another invocation moved the head on.
C15_Witness ==
    \E p \in NodeInvocations :
        /\ InWorker(p)
        /\ wpc = "done"
        /\ outcome = "NoSigningKey"
        /\ attempts = 2
        /\ Len(committed) = 2
        /\ committed[1] = gnow[p]
        /\ marker = Some(committed[2])

\* C16: an invocation whose guard call failed never enters
\* compute_offchain_election: its next step ends it and changes nothing of
\* the worker; every key selection, snapshot read, solver call, signing and
\* submission belongs to an invocation whose guard call returned Ok.
C16_GuardFirst ==
    [][ /\ \A p \in NodeInvocations :
              /\ InWorker(p)' => gres'[p] = "Ok"
              /\ (gpc[p] = "done" /\ gres[p] \in GuardFailures /\ gpc'[p] # gpc[p])
                    => (gpc'[p] = "idle" /\ wvars' = wvars)
              /\ (gpc[p] \in {"idle", "mutate"}) => ~InWorker(p)'
        /\ (wpc' # wpc \/ logs' # logs) =>
              \E p \in NodeInvocations :
                 /\ gres[p] = "Ok"
                 /\ gpc[p] \in {"done", "worker"}
                 /\ \A q \in NodeInvocations \ {p} : ~InWorker(q)
      ]_vars

\* One invocation lost the compare-and-set and is about to end, with nothing
\* done, while the one that won is submitting.
C16_Witness ==
    \E p, q \in NodeInvocations :
        /\ gpc[p] = "done"
        /\ gres[p] = WriteFailed
        /\ InWorker(q)
        /\ gres[q] = "Ok"
        /\ wpc = "submit"
        /\ Len(signlog) = 1

====
